---- MODULE Spec2Model ----
(***************************************************************************)
(* Model of folder_updater.py: the StateManager (timestamp store), the     *)
(* FolderUpdater sync engine (root sync, scan, directory mirroring,        *)
(* cleanup) and main's loop over the configurations.                       *)
(*                                                                         *)
(* Time.  A raw modification time (st_mtime) is a natural number of        *)
(* sub-ticks; datetime.fromtimestamp keeps whole ticks only.  Now stands   *)
(* for the wall clock during the modelled runs, later than every source    *)
(* modification time.                                                      *)
(***************************************************************************)
EXTENDS Integers, Sequences, FiniteSets, TLC

\* ------------------------------------------------------------------ bounds
\* largest raw modification time of a source directory
MaxTime == 3
\* raw sub-ticks per datetime tick (st_mtime is finer than datetime)
Resolution == 2
\* the batch size of the checkpoint, scaled down (the source uses 50, line 229)
CheckpointEvery == 2
\* I/O failures (OSError raised by the filesystem) in one behaviour
MaxFaults == 1
\* KeyboardInterrupts in one behaviour
MaxInterrupts == 1
\* process invocations (calls of main) in one behaviour
MaxRuns == 2

\* ------------------------------------------------------------- the universe
Names == {"A", "B"}
\* keys of the state file: the configuration names and one unknown key
Keys == Names \cup {"other"}
Root == "."
Dirs == {"a", "a/b", "c"}
AllDirs == {Root} \cup Dirs
FileNames == {"f", "g"}
FilePaths == AllDirs \X FileNames
Absent == "absent"
Now == MaxTime + 1

\* Path.parent, for the relative paths of the universe
Parent(d) == IF d = "a/b" THEN "a" ELSE Root

RECURSIVE Ancestors(_)
\* the proper ancestors of d below the root (what mkdir(parents=True) may create)
Ancestors(d) ==
    IF d = Root \/ Parent(d) = Root THEN {}
    ELSE {Parent(d)} \cup Ancestors(Parent(d))

Descendants(d, S) == {x \in S : d \in Ancestors(x)}

RECURSIVE Depth(_)
Depth(d) == IF d = Root THEN 0 ELSE 1 + Depth(Parent(d))

PrefixClosed(S) == \A d \in S : Ancestors(d) \subseteq S

RECURSIVE SetMax(_, _)
\* max(base, max(S))
SetMax(S, base) ==
    IF S = {} THEN base
    ELSE LET x == CHOOSE y \in S : TRUE
             m == SetMax(S \ {x}, base)
         IN IF x > m THEN x ELSE m

Range(s) == {s[j] : j \in 1..Len(s)}

\* ------------------------------------------------------------ timestamps
\* datetime.fromtimestamp(st_mtime): the raw time rounded to whole ticks
FromTimestamp(m) == (2 * m + Resolution) \div (2 * Resolution)

\* datetime.fromtimestamp(0), "beginning of time"
Epoch == FromTimestamp(0)

\* datetime.isoformat(): the text kept in the state file
IsoFormat(t) == [kind |-> "iso", t |-> t]

\* a value of the state file that is no ISO timestamp
BadValue == [kind |-> "bad", t |-> 0]

\* no entry under the key (dict.get returns None)
NoEntry == [kind |-> "none", t |-> 0]

\* StateManager.get_last_sync on a state mapping
get_last_sync(st, name) ==
    IF st[name].kind = "iso" THEN st[name].t ELSE Epoch

\* StateManager._load_state: the whole mapping, or {} when the file is
\* missing or unreadable
EmptyState == [key \in Keys |-> NoEntry]

\* --------------------------------------------------------------- file trees
\* A tree: whether its root exists, its directories (relative paths), its
\* regular files (content per path: "v1" an old version, "v2" the current
\* one, Absent when there is none) and the raw modification time of each
\* directory.
EmptyFiles == [p \in FilePaths |-> Absent]

NoTree == [exists |-> FALSE, dirs |-> {}, files |-> EmptyFiles,
           mtime |-> [d \in AllDirs |-> 0]]

\* the directories of a tree, the root included
TreeDirs(t) == IF t.exists THEN {Root} \cup t.dirs ELSE {}

\* the regular files directly inside directory d of tree t (iterdir + is_file)
FilesIn(t, d) == {f \in FileNames : t.files[<<d, f>>] # Absent}

\* the relative paths of all regular files of a tree (os.walk)
TreeFiles(t) == {p \in FilePaths : p[1] \in TreeDirs(t) /\ t.files[p] # Absent}

\* Path.mkdir(parents=True, exist_ok=True) of directory d: every missing
\* directory on the way is created, which stamps the directory it is created
\* in and the new directory with the current time.
mkdir(t, d) ==
    LET want == IF d = Root THEN {} ELSE {d} \cup Ancestors(d)
        new == want \ t.dirs
        touched == new \cup {Parent(x) : x \in new}
    IN [t EXCEPT !.exists = TRUE,
                 !.dirs = @ \cup new,
                 !.mtime = [x \in AllDirs |->
                              IF x \in touched \/ (x = Root /\ ~t.exists)
                              THEN Now ELSE @[x]]]

\* os.utime(dir, (atime, mtime))
utime(t, d, m) == [t EXCEPT !.mtime[d] = m]

\* Path.unlink of file p: the entry is removed, the directory is stamped
unlink(t, p) == [t EXCEPT !.files[p] = Absent, !.mtime[p[1]] = Now]

\* Path.rmdir of directory d: the entry is removed, the parent is stamped
rmdir(t, d) == [t EXCEPT !.dirs = @ \ {d}, !.mtime[Parent(d)] = Now]

\* mutant: the file is moved, not copied
copy2_Moves(p, d, f) ==
    [p EXCEPT !.tgt.files[<<d, f>>] = p.src.files[<<d, f>>],
              !.tgt.mtime[d] = IF p.tgt.files[<<d, f>>] = Absent THEN Now ELSE @,
              !.src.files[<<d, f>>] = Absent,
              !.src.mtime[d] = Now]

\* mutant: a file the target already has is not copied again
copy2_SkipExisting(p, d, f) ==
    IF p.tgt.files[<<d, f>>] # Absent THEN p
    ELSE [p EXCEPT !.tgt.files[<<d, f>>] = p.src.files[<<d, f>>],
                   !.tgt.mtime[d] = Now]

\* A pair of trees: the source and the target of one configuration.
\* shutil.copy2(source_dir/f, target_dir/f): the target file gets the source
\* content; a new entry stamps the target directory, an overwrite does not.
copy2(p, d, f) ==
    [p EXCEPT !.tgt.files[<<d, f>>] = p.src.files[<<d, f>>],
              !.tgt.mtime[d] = IF p.tgt.files[<<d, f>>] = Absent THEN Now ELSE @]

RECURSIVE CopyAll(_, _, _)
\* the copy loop over the files F of directory d
CopyAll(p, d, F) ==
    IF F = {} THEN p
    ELSE LET f == CHOOSE x \in F : TRUE
         IN CopyAll(copy2(p, d, f), d, F \ {f})

RECURSIVE UnlinkAll(_, _)
\* the deletion loop over the target files F
UnlinkAll(t, F) ==
    IF F = {} THEN t
    ELSE LET p == CHOOSE x \in F : TRUE
         IN UnlinkAll(unlink(t, p), F \ {p})

\* mutant: a directory is removed without looking inside
IsEmptyDir_Unchecked(t, d) == TRUE

\* any(dir_path.iterdir()) is false: no file and no directory inside d
IsEmptyDir(t, d) ==
    /\ FilesIn(t, d) = {}
    /\ ~\E x \in t.dirs : Parent(x) = d

\* mutant: the directories are visited top-down
ShallowestFirst(todo) == CHOOSE x \in todo : \A y \in todo : Depth(x) <= Depth(y)

\* os.walk(target, topdown=False): the next directory the walk hands out is
\* one with no unvisited directory below it
DeepestFirst(todo) == CHOOSE x \in todo : \A y \in todo : Depth(y) <= Depth(x)

RECURSIVE RemoveDirs(_, _, _, _)
\* The bottom-up pass of _cleanup_target (os.walk(target, topdown=False)):
\* the directories todo are visited deepest first; one that is not in the
\* source and is empty when visited is removed, unless rmdir raises (failD).
\* acc counts [dirs_deleted, errors].
RemoveDirs(t, todo, failD, acc) ==
    IF todo = {} THEN [tree |-> t, dirs_deleted |-> acc[1], errors |-> acc[2]]
    ELSE LET d == DeepestFirst(todo)
         IN IF ~IsEmptyDir(t, d)
            THEN RemoveDirs(t, todo \ {d}, failD, acc)
            ELSE IF d \in failD
                 THEN RemoveDirs(t, todo \ {d}, failD, <<acc[1], acc[2] + 1>>)
                 ELSE RemoveDirs(rmdir(t, d), todo \ {d}, failD,
                                 <<acc[1] + 1, acc[2]>>)

\* the target files _cleanup_target tries to delete
StaleFiles(p) == TreeFiles(p.tgt) \ TreeFiles(p.src)

\* the target directories _cleanup_target examines for removal
StaleDirs(p) == p.tgt.dirs \ p.src.dirs

\* FolderUpdater._cleanup_target(source, target); failF are the files whose
\* unlink raises, failD the directories whose rmdir raises.
_cleanup_target(p, failF, failD) ==
    IF ~p.tgt.exists
    THEN [pair |-> p, files_deleted |-> 0, dirs_deleted |-> 0, errors |-> 0]
    ELSE LET gone == StaleFiles(p) \ failF
             t1 == UnlinkAll(p.tgt, gone)
             r == RemoveDirs(t1, StaleDirs(p), failD, <<0, 0>>)
         IN [pair |-> [p EXCEPT !.tgt = r.tree],
             files_deleted |-> Cardinality(gone),
             dirs_deleted |-> r.dirs_deleted,
             errors |-> Cardinality(StaleFiles(p) \cap failF) + r.errors]

\* FolderUpdater._sync_root_files(source, target) once the target root could
\* be created; failC are the files whose copy raises, utimeOk whether
\* os.utime succeeds.
_sync_root_files(p, failC, utimeOk) ==
    LET p1 == [p EXCEPT !.tgt = mkdir(p.tgt, Root)]
        p2 == CopyAll(p1, Root, FilesIn(p.src, Root) \ failC)
    IN IF utimeOk
       THEN [p2 EXCEPT !.tgt = utime(p2.tgt, Root, p.src.mtime[Root])]
       ELSE p2

\* mutant: the first failed copy ends the copying of the directory
_sync_directory_StopsAtFailure(p, d, mkdirOk, failC, utimeOk) ==
    IF ~mkdirOk THEN p
    ELSE LET p1 == [p EXCEPT !.tgt = mkdir(p.tgt, d)]
             p2 == IF failC = {} THEN CopyAll(p1, d, FilesIn(p.src, d)) ELSE p1
         IN IF utimeOk
            THEN [p2 EXCEPT !.tgt = utime(p2.tgt, d, p.src.mtime[d])]
            ELSE p2

\* FolderUpdater._sync_directory(source_root, target_root, source_dir):
\* mkdirOk whether the target directory can be created, failC the files
\* whose copy raises, utimeOk whether os.utime succeeds.
_sync_directory(p, d, mkdirOk, failC, utimeOk) ==
    IF ~mkdirOk THEN p
    ELSE LET p1 == [p EXCEPT !.tgt = mkdir(p.tgt, d)]
             p2 == CopyAll(p1, d, FilesIn(p.src, d) \ failC)
         IN IF utimeOk
            THEN [p2 EXCEPT !.tgt = utime(p2.tgt, d, p.src.mtime[d])]
            ELSE p2

\* the sequences that list every element of S once
Perms(S) ==
    {s \in [1..Cardinality(S) -> S] : \A x \in S : \E j \in DOMAIN s : s[j] = x}

\* os.walk(source), top-down: a directory is listed before its subtree, and
\* the subtree follows it at once; the order of siblings is the file
\* system's.
WalkOrders(S) ==
    {s \in Perms(S) :
        \A j \in DOMAIN s :
            LET below == Descendants(s[j], S)
            IN /\ j + Cardinality(below) <= Cardinality(S)
               /\ {s[m] : m \in (j + 1)..(j + Cardinality(below))} = below}

\* mutant: a directory as old as the last sync counts as changed
_scan_changed_directories_NotStrict(src, since, order, statFail) ==
    SelectSeq(order, LAMBDA d : d \notin statFail
                                 /\ FromTimestamp(src.mtime[d]) >= since)

\* mutant: the source root is compared like every other directory
_scan_changed_directories_WithRoot(src, since, order, statFail) ==
    SelectSeq(<<Root>> \o order, LAMBDA d : d \notin statFail
                                 /\ FromTimestamp(src.mtime[d]) > since)

\* FolderUpdater._scan_changed_directories(source, last_sync), for the walk
\* order and the directories whose stat raises (statFail)
_scan_changed_directories(src, since, order, statFail) ==
    SelectSeq(order, LAMBDA d : d \notin statFail
                                 /\ FromTimestamp(src.mtime[d]) > since)

\* ------------------------------------------------------------------- state
VARIABLES
    fs,              \* per configuration name: [src, tgt], the two trees
    configurations,  \* load_configurations(): the names, in list order
    disk,            \* the state file last_sync.json
    state,           \* StateManager.state of the running process
    proc,            \* which invocation of main is running
    pc,              \* where main / sync_configuration stands
    k,               \* main: index of the configuration being processed
    total_success,   \* main: counter
    total_failed,    \* main: counter
    name,            \* sync_configuration: config['name']
    last_sync,       \* sync_configuration: argument
    newest_synced,   \* sync_configuration: local
    changed_dirs,    \* sync_configuration: the scanner's result
    i,               \* sync_configuration: directories processed by the loop
    stats,           \* FolderUpdater.stats
    success,         \* the first component of the returned tuple
    faults,          \* I/O failures so far
    interrupts,      \* KeyboardInterrupts so far
    outcome,         \* history: how the current call ended
    mirrored,        \* history: directories whose files this call copied
    partial,         \* history: directory being copied when interrupted
    start,           \* history: the configuration's trees when the call began
    checkpoints,     \* history: the timestamps the call's checkpoints wrote
    cleanup_errors,  \* history: failed deletions of the call's cleanup, -1 before it
    attempted,       \* history: the names main has attempted, in order
    prev,            \* history: per name, the summary of its previous call
    loaded,          \* history: the state mapping _load_state returned to this process
    written,         \* history: per key, the last timestamp this process set
    untracked        \* history: directories of the call whose time the loop could not read

mainVars == <<configurations, proc, k, total_success, total_failed>>
storeVars == <<disk, state>>
callVars == <<name, last_sync, newest_synced, changed_dirs, i, stats, success>>
histVars == <<outcome, mirrored, partial, start, checkpoints, cleanup_errors,
             attempted, prev, loaded, written, untracked>>
vars == <<fs, mainVars, storeVars, pc, callVars, faults, interrupts, histVars>>

ZeroStats == [dirs_scanned |-> 0, dirs_changed |-> 0, files_synced |-> 0,
              files_deleted |-> 0, dirs_deleted |-> 0, errors |-> 0]

NoDir == "-"

NoPrev == [ran |-> FALSE, outcome |-> "none", pending |-> {}, partial |-> NoDir,
           stats |-> ZeroStats, returned |-> 0, checkpoints |-> <<>>,
           proc |-> 0, changed |-> {}]

\* what a failed write of the state file can leave behind: open() raised and
\* the file is as before, or the file was truncated and the next
\* _load_state reads {}
WriteResults == {"ok", "kept", "truncated"}

Cost(w) == IF w = "ok" THEN 0 ELSE 1

\* mutant: the mapping saved holds the entry written and nothing else
set_last_sync_FreshMapping(st, dk, key, timestamp, w) ==
    LET st1 == [EmptyState EXCEPT ![key] = IsoFormat(timestamp)]
    IN [state |-> st1,
        disk |-> CASE w = "ok" -> st1
                   [] w = "kept" -> dk
                   [] OTHER -> EmptyState]

\* mutant: the entry is kept in memory only when the file could be written
set_last_sync_OnlyIfSaved(st, dk, key, timestamp, w) ==
    LET st1 == [st EXCEPT ![key] = IsoFormat(timestamp)]
    IN [state |-> IF w = "ok" THEN st1 ELSE st,
        disk |-> CASE w = "ok" -> st1
                   [] w = "kept" -> dk
                   [] OTHER -> EmptyState]

\* StateManager.set_last_sync(config_name, timestamp) with _save_state: the
\* new [state, disk]
set_last_sync(st, dk, key, timestamp, w) ==
    LET st1 == [st EXCEPT ![key] = IsoFormat(timestamp)]
    IN [state |-> st1,
        disk |-> CASE w = "ok" -> st1
                   [] w = "kept" -> dk
                   [] OTHER -> EmptyState]

Budget == MaxFaults - faults

\* the entries of written: no set_last_sync call for the key yet, or the
\* timestamp the last call passed
NotWritten == [set |-> FALSE, t |-> 0]

WrittenAs(timestamp) == [set |-> TRUE, t |-> timestamp]

\* ------------------------------------------------------------ initial states
\* a source directory was modified after the epoch
SourceTimes == {m \in 1..MaxTime : FromTimestamp(m) > Epoch}

\* The source of configuration A: any prefix-closed set of directories of the
\* universe with any modification times, a file f in the root and in every
\* directory, and a second file g in directory a.
SourceTreesA ==
    {[exists |-> TRUE, dirs |-> D,
      files |-> [p \in FilePaths |->
                   IF \/ p[1] \in D /\ p[2] = "f"
                      \/ p = <<"a", "g">> /\ "a" \in D
                      \/ p = <<Root, "f">>
                   THEN "v2" ELSE Absent],
      mtime |-> [d \in AllDirs |-> IF d \in D THEN mt[d] ELSE MaxTime]] :
        D \in {S \in SUBSET Dirs : PrefixClosed(S)},
        mt \in [Dirs -> SourceTimes]}

\* A target left by earlier syncs of an older source: every directory of the
\* universe, each with an old file f, and an old file g in the root.
StaleTarget ==
    [exists |-> TRUE, dirs |-> Dirs,
     files |-> [p \in FilePaths |->
                  IF p[2] = "f" \/ p = <<Root, "g">> THEN "v1" ELSE Absent],
     mtime |-> [d \in AllDirs |-> Now]]

\* the source of configuration B: missing, or an empty root
SourceTreesB ==
    {NoTree,
     [exists |-> TRUE, dirs |-> {}, files |-> EmptyFiles,
      mtime |-> [d \in AllDirs |-> MaxTime]]}

\* the state file: missing, or holding entries from earlier runs
InitialDisks ==
    {EmptyState,
     [key \in Keys |-> IF key = "A" THEN IsoFormat(1) ELSE BadValue]}

\* the initial states with the configuration lists cfgs and the sources sbs
\* of configuration B
InitWith(cfgs, sbs) ==
    /\ configurations \in cfgs
    /\ \E sa \in SourceTreesA \cup {NoTree}, ta \in {NoTree, StaleTarget}, sb \in sbs :
          fs = [n \in Names |->
                  IF n = "A" THEN [src |-> sa, tgt |-> ta]
                  ELSE [src |-> sb, tgt |-> NoTree]]
    /\ disk \in InitialDisks
    /\ state = disk
    /\ proc = 1
    /\ pc = "main"
    /\ k = 1
    /\ total_success = 0
    /\ total_failed = 0
    /\ name = "A"
    /\ last_sync = Epoch
    /\ newest_synced = Epoch
    /\ changed_dirs = <<>>
    /\ i = 0
    /\ stats = ZeroStats
    /\ success = FALSE
    /\ faults = 0
    /\ interrupts = 0
    /\ outcome = "none"
    /\ mirrored = {}
    /\ partial = NoDir
    /\ start = [src |-> NoTree, tgt |-> NoTree]
    /\ checkpoints = <<>>
    /\ cleanup_errors = -1
    /\ attempted = <<>>
    /\ prev = [n \in Names |-> NoPrev]
    /\ loaded = disk
    /\ written = [key \in Keys |-> NotWritten]
    /\ untracked = {}

\* ------------------------------------------------------------------ actions
\* the summary of the call that just ended, kept for the next run
Summary ==
    [ran |-> TRUE, outcome |-> outcome,
     pending |-> {changed_dirs[j] : j \in (i + 1)..Len(changed_dirs)},
     partial |-> partial, stats |-> stats, returned |-> newest_synced,
     checkpoints |-> checkpoints, proc |-> proc,
     changed |-> Range(changed_dirs)]

\* mutant: the source is taken to exist without looking
source_exists_Unchecked(src) == TRUE

\* source.exists(), line 132
source_exists(src) == src.exists

\* main, lines 497-504, and sync_configuration up to its try block (lines
\* 128-145): the next configuration is fetched, its last sync read from the
\* store, and the call returns at once when the source does not exist.
MainCall ==
    /\ pc = "main"
    /\ k <= Len(configurations)
    /\ LET n == configurations[k]
           ls == get_last_sync(state, n)
       IN /\ name' = n
          /\ last_sync' = ls
          /\ newest_synced' = ls
          /\ changed_dirs' = <<>>
          /\ i' = 0
          /\ mirrored' = {}
          /\ partial' = NoDir
          /\ start' = fs[n]
          /\ checkpoints' = <<>>
          /\ cleanup_errors' = -1
          /\ untracked' = {}
          /\ attempted' = Append(attempted, n)
          /\ IF ~source_exists(fs[n].src)
             THEN /\ pc' = "returned"
                  /\ success' = FALSE
                  /\ outcome' = "missing"
                  /\ stats' = stats
             ELSE /\ pc' = "root"
                  /\ success' = FALSE
                  /\ outcome' = "running"
                  /\ stats' = ZeroStats
    /\ UNCHANGED <<fs, mainVars, storeVars, faults, interrupts, prev,
                   loaded, written>>

\* main, lines 516-518: the call raised before its try block (a
\* configuration record without its keys, source.exists() raising); the
\* configuration is counted as failed and nothing is saved.
MainCallRaises ==
    /\ pc = "main"
    /\ k <= Len(configurations)
    /\ Budget > 0
    /\ faults' = faults + 1
    /\ total_failed' = total_failed + 1
    /\ k' = k + 1
    /\ pc' = IF k + 1 > Len(configurations) THEN "done" ELSE "main"
    /\ attempted' = Append(attempted, configurations[k])
    /\ UNCHANGED <<fs, configurations, proc, total_success, storeVars, callVars,
                   interrupts, outcome, mirrored, partial, start, checkpoints,
                   cleanup_errors, prev,
                   loaded, written, untracked>>

\* sync_configuration, line 148: _sync_root_files
SyncRootFiles ==
    /\ pc = "root"
    /\ \E failC \in SUBSET FilesIn(fs[name].src, Root), utimeOk \in BOOLEAN :
          LET cost == Cardinality(failC) + (IF utimeOk THEN 0 ELSE 1)
          IN /\ cost <= Budget
             /\ faults' = faults + cost
             /\ fs' = [fs EXCEPT ![name] = _sync_root_files(@, failC, utimeOk)]
             /\ stats' = [stats EXCEPT
                   !.files_synced = @ + Cardinality(FilesIn(fs[name].src, Root) \ failC),
                   !.errors = @ + Cardinality(failC)]
    /\ pc' = "scan"
    /\ UNCHANGED <<mainVars, storeVars, name, last_sync, newest_synced,
                   changed_dirs, i, success, interrupts, histVars>>

\* sync_configuration, lines 258-262, reached from line 275: the target root
\* cannot be created, target.mkdir raises
SyncRootFilesRaises ==
    /\ pc = "root"
    /\ Budget > 0
    /\ faults' = faults + 1
    /\ stats' = [stats EXCEPT !.errors = @ + 1]
    /\ success' = FALSE
    /\ outcome' = "failed"
    /\ pc' = "returned"
    /\ UNCHANGED <<fs, mainVars, storeVars, name, last_sync, newest_synced,
                   changed_dirs, i, interrupts, mirrored, partial, start, checkpoints,
                   cleanup_errors, attempted, prev,
                   loaded, written, untracked>>

\* mutant: a scan that finds nothing returns at once, without the cleanup
Scan_ZeroSkipsCleanup ==
    /\ pc = "scan"
    /\ \E order \in WalkOrders(fs[name].src.dirs),
          statFail \in SUBSET fs[name].src.dirs :
          /\ Cardinality(statFail) <= Budget
          /\ faults' = faults + Cardinality(statFail)
          /\ changed_dirs' = _scan_changed_directories(fs[name].src, last_sync,
                                                       order, statFail)
          /\ stats' = [stats EXCEPT
                !.dirs_scanned = @ + 1 + Cardinality(fs[name].src.dirs),
                !.dirs_changed = @ + Len(changed_dirs'),
                !.errors = @ + Cardinality(statFail)]
    /\ i' = 0
    /\ IF Len(changed_dirs') = 0
       THEN /\ pc' = "returned"
            /\ success' = TRUE
            /\ outcome' = "ok"
       ELSE /\ pc' = "mirror"
            /\ UNCHANGED <<success, outcome>>
    /\ UNCHANGED <<fs, mainVars, storeVars, name, last_sync, newest_synced,
                   interrupts, mirrored, partial, start, checkpoints,
                   cleanup_errors, attempted, prev, loaded, written, untracked>>

\* sync_configuration, lines 149-155: the scan
Scan ==
    /\ pc = "scan"
    /\ \E order \in WalkOrders(fs[name].src.dirs),
          statFail \in SUBSET fs[name].src.dirs :
          /\ Cardinality(statFail) <= Budget
          /\ faults' = faults + Cardinality(statFail)
          /\ changed_dirs' = _scan_changed_directories(fs[name].src, last_sync,
                                                       order, statFail)
          /\ stats' = [stats EXCEPT
                !.dirs_scanned = @ + 1 + Cardinality(fs[name].src.dirs),
                !.dirs_changed = @ + Len(changed_dirs'),
                !.errors = @ + Cardinality(statFail)]
    /\ i' = 0
    /\ pc' = IF Len(changed_dirs') = 0 THEN "cleanup" ELSE "mirror"
    /\ UNCHANGED <<fs, mainVars, storeVars, name, last_sync, newest_synced,
                   success, interrupts, histVars>>

\* sync_configuration, lines 258-262, reached from line 149: an exception
\* leaves _scan_changed_directories (its stat failures are caught inside, so
\* this is any other error)
ScanRaises ==
    /\ pc = "scan"
    /\ Budget > 0
    /\ faults' = faults + 1
    /\ stats' = [stats EXCEPT !.errors = @ + 1]
    /\ success' = FALSE
    /\ outcome' = "failed"
    /\ pc' = "returned"
    /\ UNCHANGED <<fs, mainVars, storeVars, name, last_sync, newest_synced,
                   changed_dirs, i, interrupts, mirrored, partial, start, checkpoints,
                   cleanup_errors, attempted, prev, loaded, written, untracked>>

\* mutant: the newest-synced timestamp follows the last directory
TrackNewest_NoCompare(newest, dir_mtime) == dir_mtime

\* the newest-synced tracking of lines 208-213
TrackNewest(newest, dir_mtime) ==
    IF dir_mtime > newest THEN dir_mtime ELSE newest

\* mutant: the checkpoint is written after every directory
IsCheckpoint_EveryDirectory(n) == TRUE

\* the checkpoint test of line 229, "if i % 50 == 0", for the scaled batch
IsCheckpoint(n) == n % CheckpointEvery = 0

\* sync_configuration, lines 204-236: one iteration of the loop over
\* changed_dirs: _sync_directory, the newest-synced tracking and, after every
\* CheckpointEvery-th directory, the checkpoint
MirrorDirectory ==
    /\ pc = "mirror"
    /\ i < Len(changed_dirs)
    /\ LET d == changed_dirs[i + 1]
           n == i + 1
       IN \E mkdirOk \in BOOLEAN, failC \in SUBSET FilesIn(fs[name].src, d),
             utimeOk \in BOOLEAN, statOk \in BOOLEAN, w \in WriteResults :
             LET cost == (IF mkdirOk THEN 0 ELSE 1) + Cardinality(failC)
                         + (IF utimeOk THEN 0 ELSE 1) + (IF statOk THEN 0 ELSE 1)
                         + Cost(w)
                 nw == IF statOk
                       THEN TrackNewest(newest_synced,
                                        FromTimestamp(fs[name].src.mtime[d]))
                       ELSE newest_synced
                 saved == set_last_sync(state, disk, name, nw, w)
             IN /\ cost <= Budget
                /\ ~mkdirOk => failC = {} /\ utimeOk
                /\ ~IsCheckpoint(n) => w = "ok"
                /\ faults' = faults + cost
                /\ fs' = [fs EXCEPT ![name] =
                            _sync_directory(@, d, mkdirOk, failC, utimeOk)]
                /\ stats' = [stats EXCEPT
                      !.files_synced = @ + (IF mkdirOk
                          THEN Cardinality(FilesIn(fs[name].src, d) \ failC) ELSE 0),
                      !.errors = @ + Cardinality(failC) + (IF mkdirOk THEN 0 ELSE 1)]
                /\ mirrored' = IF mkdirOk THEN mirrored \cup {d} ELSE mirrored
                /\ untracked' = IF statOk THEN untracked ELSE untracked \cup {d}
                /\ newest_synced' = nw
                /\ i' = n
                /\ IF IsCheckpoint(n)
                   THEN /\ state' = saved.state
                        /\ disk' = saved.disk
                        /\ checkpoints' = Append(checkpoints, nw)
                        /\ written' = [written EXCEPT ![name] = WrittenAs(nw)]
                   ELSE UNCHANGED <<storeVars, checkpoints, written>>
                /\ pc' = IF n = Len(changed_dirs) THEN "cleanup" ELSE "mirror"
    /\ UNCHANGED <<mainVars, name, last_sync, changed_dirs, success, interrupts,
                   outcome, partial, start, cleanup_errors, attempted, prev,
                   loaded>>

\* mutant: a failed call returns the timestamp it was given
MirrorDirectoryRaises_DiscardsProgress ==
    /\ pc = "mirror"
    /\ i < Len(changed_dirs)
    /\ Budget > 0
    /\ faults' = faults + 1
    /\ fs' = [fs EXCEPT ![name].tgt = mkdir(@, changed_dirs[i + 1])]
    /\ stats' = [stats EXCEPT !.errors = @ + 1]
    /\ success' = FALSE
    /\ outcome' = "failed"
    /\ newest_synced' = last_sync
    /\ pc' = "returned"
    /\ UNCHANGED <<mainVars, storeVars, name, last_sync,
                   changed_dirs, i, interrupts, mirrored, partial, start, checkpoints,
                   cleanup_errors, attempted, prev, loaded, written, untracked>>

\* sync_configuration, lines 258-262, reached from line 353: the changed
\* directory can no longer be listed, source_dir.iterdir() raises after
\* the target directory was created
MirrorDirectoryRaises ==
    /\ pc = "mirror"
    /\ i < Len(changed_dirs)
    /\ Budget > 0
    /\ faults' = faults + 1
    /\ fs' = [fs EXCEPT ![name].tgt = mkdir(@, changed_dirs[i + 1])]
    /\ stats' = [stats EXCEPT !.errors = @ + 1]
    /\ success' = FALSE
    /\ outcome' = "failed"
    /\ pc' = "returned"
    /\ UNCHANGED <<mainVars, storeVars, name, last_sync, newest_synced,
                   changed_dirs, i, interrupts, mirrored, partial, start, checkpoints,
                   cleanup_errors, attempted, prev,
                   loaded, written, untracked>>

\* sync_configuration, lines 250-256, reached from inside _sync_directory:
\* KeyboardInterrupt while the files of a changed directory are being copied;
\* the files in done were copied, the directory's time was not yet set
InterruptInDirectory ==
    /\ pc = "mirror"
    /\ i < Len(changed_dirs)
    /\ interrupts < MaxInterrupts
    /\ interrupts' = interrupts + 1
    /\ LET d == changed_dirs[i + 1]
       IN \E done \in SUBSET FilesIn(fs[name].src, d) :
             /\ fs' = [fs EXCEPT ![name] =
                         CopyAll([@ EXCEPT !.tgt = mkdir(@, d)], d, done)]
             /\ stats' = [stats EXCEPT !.files_synced = @ + Cardinality(done)]
             /\ partial' = d
    /\ success' = FALSE
    /\ outcome' = "interrupted-mirror"
    /\ pc' = "returned"
    /\ UNCHANGED <<mainVars, storeVars, name, last_sync, newest_synced,
                   changed_dirs, i, faults, mirrored, start, checkpoints,
                   cleanup_errors, attempted, prev,
                   loaded, written, untracked>>

\* mutant: the cleanup runs on the way out of an interrupted call
Interrupt_ThenCleanup ==
    /\ pc \in {"root", "scan", "mirror", "cleanup"}
    /\ interrupts < MaxInterrupts
    /\ interrupts' = interrupts + 1
    /\ LET r == _cleanup_target(fs[name], {}, {})
       IN /\ fs' = [fs EXCEPT ![name] = r.pair]
          /\ stats' = [stats EXCEPT !.files_deleted = @ + r.files_deleted,
                                    !.dirs_deleted = @ + r.dirs_deleted]
    /\ success' = FALSE
    /\ outcome' = IF pc = "mirror" THEN "interrupted-mirror" ELSE "interrupted"
    /\ pc' = "returned"
    /\ UNCHANGED <<mainVars, storeVars, name, last_sync, newest_synced,
                   changed_dirs, i, faults, mirrored, partial, start, checkpoints,
                   cleanup_errors, attempted, prev,
                   loaded, written, untracked>>

\* mutant: KeyboardInterrupt is not caught and ends main
Interrupt_EndsMain ==
    /\ pc \in {"root", "scan", "mirror", "cleanup"}
    /\ interrupts < MaxInterrupts
    /\ interrupts' = interrupts + 1
    /\ success' = FALSE
    /\ outcome' = IF pc = "mirror" THEN "interrupted-mirror" ELSE "interrupted"
    /\ pc' = "done"
    /\ UNCHANGED <<fs, mainVars, storeVars, name, last_sync, newest_synced,
                   changed_dirs, i, stats, faults, mirrored, partial, start,
                   checkpoints, cleanup_errors, attempted, prev,
                   loaded, written, untracked>>

\* sync_configuration, lines 250-256: KeyboardInterrupt between two steps of
\* the try block (before the root sync, the scan, the next directory or the
\* cleanup)
Interrupt ==
    /\ pc \in {"root", "scan", "mirror", "cleanup"}
    /\ interrupts < MaxInterrupts
    /\ interrupts' = interrupts + 1
    /\ success' = FALSE
    /\ outcome' = IF pc = "mirror" THEN "interrupted-mirror" ELSE "interrupted"
    /\ pc' = "returned"
    /\ UNCHANGED <<fs, mainVars, storeVars, name, last_sync, newest_synced,
                   changed_dirs, i, stats, faults, mirrored, partial, start, checkpoints,
                   cleanup_errors, attempted, prev,
                   loaded, written, untracked>>

\* sync_configuration, lines 157-159 and 245-248: _cleanup_target, then the
\* successful return
CleanupTarget ==
    /\ pc = "cleanup"
    /\ \E failF \in SUBSET StaleFiles(fs[name]), failD \in SUBSET StaleDirs(fs[name]) :
          LET r == _cleanup_target(fs[name], failF, failD)
          IN /\ r.errors = Cardinality(failF) + Cardinality(failD)
             /\ r.errors <= Budget
             /\ faults' = faults + r.errors
             /\ fs' = [fs EXCEPT ![name] = r.pair]
             /\ cleanup_errors' = r.errors
             /\ stats' = [stats EXCEPT !.files_deleted = @ + r.files_deleted,
                                       !.dirs_deleted = @ + r.dirs_deleted,
                                       !.errors = @ + r.errors]
    /\ success' = TRUE
    /\ outcome' = "ok"
    /\ pc' = "returned"
    /\ UNCHANGED <<mainVars, storeVars, name, last_sync, newest_synced,
                   changed_dirs, i, interrupts, mirrored, partial, start, checkpoints,
                   attempted, prev,
                   loaded, written, untracked>>

\* mutant: the returned timestamp is saved only after a successful call
MainSave_OnlyOnSuccess ==
    /\ pc = "returned"
    /\ \E w \in WriteResults :
          LET saved == set_last_sync(state, disk, name, newest_synced, w)
          IN /\ Cost(w) <= Budget
             /\ faults' = faults + Cost(w)
             /\ state' = IF success THEN saved.state ELSE state
             /\ disk' = IF success THEN saved.disk ELSE disk
    /\ total_success' = IF success THEN total_success + 1 ELSE total_success
    /\ total_failed' = IF success THEN total_failed ELSE total_failed + 1
    /\ prev' = [prev EXCEPT ![name] = Summary]
    /\ written' = IF success THEN [written EXCEPT ![name] = WrittenAs(newest_synced)]
                ELSE written
    /\ k' = k + 1
    /\ pc' = IF k + 1 > Len(configurations) THEN "done" ELSE "main"
    /\ UNCHANGED <<fs, configurations, proc, callVars, interrupts, outcome,
                   mirrored, partial, start, checkpoints, cleanup_errors,
                   attempted,
                   loaded, untracked>>

\* main, lines 506-514: the returned timestamp is saved and the
\* configuration counted
MainSave ==
    /\ pc = "returned"
    /\ \E w \in WriteResults :
          LET saved == set_last_sync(state, disk, name, newest_synced, w)
          IN /\ Cost(w) <= Budget
             /\ faults' = faults + Cost(w)
             /\ state' = saved.state
             /\ disk' = saved.disk
    /\ total_success' = IF success THEN total_success + 1 ELSE total_success
    /\ total_failed' = IF success THEN total_failed ELSE total_failed + 1
    /\ prev' = [prev EXCEPT ![name] = Summary]
    /\ written' = [written EXCEPT ![name] = WrittenAs(newest_synced)]
    /\ k' = k + 1
    /\ pc' = IF k + 1 > Len(configurations) THEN "done" ELSE "main"
    /\ UNCHANGED <<fs, configurations, proc, callVars, interrupts, outcome,
                   mirrored, partial, start, checkpoints, cleanup_errors,
                   attempted,
                   loaded, untracked>>

\* main is invoked again: a new process loads the state file (lines 491-495)
Restart ==
    /\ pc = "done"
    /\ proc < MaxRuns
    /\ proc' = proc + 1
    /\ state' = disk
    /\ loaded' = disk
    /\ written' = [key \in Keys |-> NotWritten]
    /\ k' = 1
    /\ total_success' = 0
    /\ total_failed' = 0
    /\ pc' = "main"
    /\ attempted' = <<>>
    /\ UNCHANGED <<fs, configurations, disk, callVars, faults, interrupts, outcome,
                   mirrored, partial, start, checkpoints, cleanup_errors, prev, untracked>>

\* one invocation of main over two configurations
Init == InitWith({<<"A", "B">>, <<"B", "A">>}, SourceTreesB)

\* repeated invocations of main over the one configuration A
InitResume == InitWith({<<"A">>}, {NoTree})

Run ==
    \/ MainCall
    \/ MainCallRaises
    \/ SyncRootFiles
    \/ SyncRootFilesRaises
    \/ Scan
    \/ ScanRaises
    \/ MirrorDirectory
    \/ MirrorDirectoryRaises
    \/ InterruptInDirectory
    \/ Interrupt
    \/ CleanupTarget
    \/ MainSave

Next == Run

NextResume == Run \/ Restart

Spec == Init /\ [][Next]_vars

SpecResume == InitResume /\ [][NextResume]_vars

\* ------------------------------------------------- the store on its own
\* The StateManager driven by any caller: any sequence of set_last_sync
\* calls on the configuration names and get_last_sync calls on any key, every
\* write free to fail, and new processes that load the file again.

\* the timestamps a caller passes: the datetimes of the source times
StoreTimes == {FromTimestamp(m) : m \in SourceTimes}

InitStore ==
    /\ configurations = <<"A">>
    /\ fs = [n \in Names |-> [src |-> NoTree, tgt |-> NoTree]]
    /\ disk \in InitialDisks
    /\ state = disk
    /\ proc = 1
    /\ pc = "loaded"
    /\ k = 1
    /\ total_success = 0
    /\ total_failed = 0
    /\ name = "A"
    /\ last_sync = Epoch
    /\ newest_synced = Epoch
    /\ changed_dirs = <<>>
    /\ i = 0
    /\ stats = ZeroStats
    /\ success = FALSE
    /\ faults = 0
    /\ interrupts = 0
    /\ outcome = "none"
    /\ mirrored = {}
    /\ partial = NoDir
    /\ start = [src |-> NoTree, tgt |-> NoTree]
    /\ checkpoints = <<>>
    /\ cleanup_errors = -1
    /\ attempted = <<>>
    /\ prev = [n \in Names |-> NoPrev]
    /\ loaded = disk
    /\ written = [key \in Keys |-> NotWritten]
    /\ untracked = {}

\* StateManager.set_last_sync(key, t), lines 84-97, the write ending as w
StoreSet ==
    /\ \E key \in Names, t \in StoreTimes, w \in WriteResults :
          LET saved == set_last_sync(state, disk, key, t, w)
          IN /\ state' = saved.state
             /\ disk' = saved.disk
             /\ written' = [written EXCEPT ![key] = WrittenAs(t)]
             /\ name' = key
    /\ pc' = "set"
    /\ UNCHANGED <<fs, mainVars, last_sync, newest_synced, changed_dirs, i,
                   stats, success, faults, interrupts, outcome, mirrored,
                   partial, start, checkpoints, cleanup_errors, attempted, prev,
                   loaded, untracked>>

\* StateManager.get_last_sync(key), lines 74-82; the result is kept in
\* last_sync
StoreGet ==
    /\ \E key \in Keys :
          /\ name' = key
          /\ last_sync' = get_last_sync(state, key)
    /\ pc' = "got"
    /\ UNCHANGED <<fs, mainVars, storeVars, newest_synced, changed_dirs, i,
                   stats, success, faults, interrupts, histVars>>

\* StateManager.__init__, lines 59-61, in a new process
StoreLoad ==
    /\ proc < MaxRuns
    /\ proc' = proc + 1
    /\ state' = disk
    /\ loaded' = disk
    /\ written' = [key \in Keys |-> NotWritten]
    /\ pc' = "loaded"
    /\ UNCHANGED <<fs, configurations, k, total_success, total_failed, disk,
                   callVars, faults, interrupts, outcome, mirrored, partial,
                   start, checkpoints, cleanup_errors, attempted, prev, untracked>>

NextStore == StoreSet \/ StoreGet \/ StoreLoad

SpecStore == InitStore /\ [][NextStore]_vars

\* ------------------------------------------------------------------- claims
\* the scan of the current call is done and no directory is processed yet
AfterScan ==
    /\ outcome = "running"
    /\ \/ pc = "mirror" /\ i = 0
       \/ pc = "cleanup" /\ changed_dirs = <<>>

\* the directories of a source tree newer than timestamp t
NewerThan(src, t) == {d \in src.dirs : FromTimestamp(src.mtime[d]) > t}

\* the previous call for the current configuration was interrupted in its
\* mirroring loop (the source trees never change in this model)
ResumesInterrupted == prev[name].outcome = "interrupted-mirror"

\* C1 (as claimed): when the previous call was interrupted in the mirroring
\* loop after a checkpoint wrote T, and no I/O failure occurred, the next call
\* over the same source detects exactly the directories newer than T, and
\* every directory the interrupted call had not yet mirrored is among them.
C1_ResumeRedetectsPending ==
    (/\ AfterScan
     /\ ResumesInterrupted
     /\ prev[name].checkpoints # <<>>
     /\ faults = 0)
    => LET T == prev[name].checkpoints[Len(prev[name].checkpoints)]
       IN /\ Range(changed_dirs) = NewerThan(fs[name].src, T)
          /\ prev[name].pending \subseteq Range(changed_dirs)

\* C2: every value set_last_sync writes for a name, in the memory of the
\* running process and in the state file, is at least the value stored for
\* that name before the write.
C2_MonotonicState ==
    [][\A n \in Names :
          /\ (proc' = proc /\ state'[n] # state[n])
                => /\ state'[n].kind = "iso"
                   /\ state'[n].t >= get_last_sync(state, n)
          /\ (disk'[n] # disk[n] /\ disk'[n].kind = "iso")
                => disk'[n].t >= get_last_sync(disk, n)]_vars

\* C2 witness: a second invocation that wrote a checkpoint and a final value
\* above the value the first invocation left
C2_Witness ==
    /\ proc = 2
    /\ pc = "done"
    /\ prev["A"].checkpoints # <<>>
    /\ disk["A"] = IsoFormat(newest_synced)
    /\ newest_synced > last_sync
    /\ last_sync > Epoch

\* the datetime of the source modification time of each directory in S
SourceTimesOf(S) == {FromTimestamp(fs[name].src.mtime[d]) : d \in S}

\* C3 (as claimed): the newest-synced timestamp is never ahead of the
\* run's initial last_sync and the directories actually mirrored so far.
C3_NeverAheadOfMirrored ==
    outcome \in {"running", "ok", "failed", "interrupted", "interrupted-mirror"}
    => newest_synced <= SetMax(SourceTimesOf(mirrored), last_sync)

\* the current call is the second one for its configuration, the first one
\* completed, and no I/O operation failed in either
SecondRunAfterCleanFirst ==
    /\ proc = 2
    /\ pc = "returned"
    /\ prev[name].proc = 1
    /\ prev[name].outcome = "ok"
    /\ faults = 0

\* C4 (as claimed): the second of two runs with no source change in between
\* finds no changed directory, copies no file and deletes nothing.
C4_SecondRunDoesNothing ==
    SecondRunAfterCleanFirst
    => /\ changed_dirs = <<>>
       /\ stats.files_synced = 0
       /\ stats.files_deleted = 0
       /\ stats.dirs_deleted = 0

\* C4 (amended): the second run finds no changed directory and deletes
\* nothing; the only files it copies are the files directly in the source
\* root, all of them when it completes.
C4_SecondRunCopiesRootOnly ==
    SecondRunAfterCleanFirst
    => /\ changed_dirs = <<>>
       /\ mirrored = {}
       /\ stats.files_deleted = 0
       /\ stats.dirs_deleted = 0
       /\ stats.files_synced <= Cardinality(FilesIn(fs[name].src, Root))
       /\ outcome = "ok"
             => stats.files_synced = Cardinality(FilesIn(fs[name].src, Root))

\* C4 witness: a completed second run after a first run that mirrored
\* directories and deleted stale target entries
C4_Witness ==
    /\ SecondRunAfterCleanFirst
    /\ outcome = "ok"
    /\ prev[name].stats.dirs_changed >= 2
    /\ prev[name].stats.files_deleted > 0
    /\ prev[name].stats.dirs_deleted > 0
    /\ stats.files_synced = 1

\* C5 (as claimed): a directory that was being copied when the previous call
\* was interrupted is detected as changed again by the next call.
C5_PartialDirectoryRedetected ==
    (/\ AfterScan
     /\ ResumesInterrupted
     /\ prev[name].partial # NoDir
     /\ faults = 0)
    => prev[name].partial \in Range(changed_dirs)

\* the directories the loop of the current call has processed
Processed == {changed_dirs[j] : j \in 1..i}

\* C6: a call interrupted in its mirroring loop returns False with the
\* newest-synced timestamp accumulated over the directories processed so far,
\* and has deleted nothing: every file and directory the target had when the
\* call began is still there.
C6_InterruptSkipsCleanup ==
    (pc = "returned" /\ outcome = "interrupted-mirror")
    => /\ success = FALSE
       /\ cleanup_errors = -1
       /\ stats.files_deleted = 0
       /\ stats.dirs_deleted = 0
       /\ TreeDirs(start.tgt) \subseteq TreeDirs(fs[name].tgt)
       /\ TreeFiles(start.tgt) \subseteq TreeFiles(fs[name].tgt)
       /\ newest_synced \in {last_sync} \cup SourceTimesOf(Processed)
       /\ newest_synced >= last_sync
       /\ faults = 0 => newest_synced = SetMax(SourceTimesOf(Processed), last_sync)

\* C6 witness: an interrupted call that had advanced the timestamp and left
\* stale target files the cleanup would have deleted
C6_Witness ==
    /\ pc = "returned"
    /\ outcome = "interrupted-mirror"
    /\ i >= 1
    /\ newest_synced > last_sync
    /\ StaleFiles(fs[name]) # {}
    /\ StaleDirs(fs[name]) # {}

\* C7: the step that follows every return of sync_configuration writes the
\* returned timestamp under the configuration's name, whatever the outcome;
\* so every configuration whose call returned in this process has the returned
\* timestamp as its entry (in the state file as well when no write failed).
C7_SavedAfterEveryReturn ==
    /\ [][pc = "returned" => state'[name] = IsoFormat(newest_synced)]_vars
    /\ [](\A n \in Names :
            prev[n].proc = proc
               => /\ state[n] = IsoFormat(prev[n].returned)
                  /\ faults = 0 => disk[n] = IsoFormat(prev[n].returned))

\* C7 witness: the first configuration was interrupted and its timestamp is
\* in the store while the second is about to start
C7_Witness ==
    /\ pc = "main"
    /\ k = 2
    /\ prev[configurations[1]].outcome = "interrupted-mirror"
    /\ prev[configurations[1]].returned > Epoch
    /\ state[configurations[1]] = IsoFormat(prev[configurations[1]].returned)

\* C8: the configurations are attempted in list order, one at a time; each one
\* attempted is counted once, as successful or failed; main never stops
\* before the end of the list, whatever happened to a configuration.
C8_FailureIsolation ==
    /\ attempted = SubSeq(configurations, 1, Len(attempted))
    /\ Len(attempted) = (IF pc \in {"main", "done"} THEN k - 1 ELSE k)
    /\ total_success + total_failed = k - 1
    /\ pc \notin {"main", "done"} => name = configurations[k]
    /\ pc = "done" => /\ attempted = configurations
                      /\ total_success + total_failed = Len(configurations)
    /\ pc # "done" => ENABLED Run

\* C8 witness: main reached the end of the list although the first
\* configuration was interrupted and the second one failed
C8_Witness ==
    /\ pc = "done"
    /\ Len(configurations) = 2
    /\ prev[configurations[1]].outcome = "interrupted-mirror"
    /\ prev[configurations[2]].outcome \in {"failed", "missing"}
    /\ total_failed = 2

\* C9: after a cleanup in which no deletion failed, every target file is a
\* source file and every target directory is a source directory.
C9_ReconciliationCorrect ==
    (pc = "returned" /\ cleanup_errors = 0)
    => /\ TreeFiles(fs[name].tgt) \subseteq TreeFiles(fs[name].src)
       /\ fs[name].tgt.dirs \subseteq fs[name].src.dirs

\* C9 witness: the cleanup removed a chain of nested target-only directories
\* and the files in them
C9_Witness ==
    /\ pc = "returned"
    /\ cleanup_errors = 0
    /\ {"a", "a/b"} \subseteq start.tgt.dirs
    /\ "a" \notin fs[name].src.dirs
    /\ "a" \notin fs[name].tgt.dirs
    /\ stats.dirs_deleted >= 2
    /\ stats.files_deleted >= 2

\* C10 (as claimed): when a run without I/O failure finishes, the target of
\* every directory it mirrored has the modification time of the source
\* directory.
C10_TargetMtimeMirrorsSource ==
    (pc = "returned" /\ outcome = "ok" /\ faults = 0)
    => \A d \in mirrored : fs[name].tgt.mtime[d] = fs[name].src.mtime[d]

\* the regular files of the source that the current call has to copy: the
\* files directly in the root and in the directories reported as changed
ToCopy ==
    {p \in TreeFiles(fs[name].src) : p[1] \in {Root} \cup Range(changed_dirs)}

\* every copy of the current call succeeded: files_synced counts one per file
\* that had to be copied (a failed copy2 and a target directory that could not
\* be created both leave the counter short)
NoCopyError == stats.files_synced = Cardinality(ToCopy)

\* C11: after a call that ends successfully with no copy error, every
\* directory the scanner reported as changed exists in the target, and every
\* regular file directly inside it is in the target at the same relative path
\* with the content of the source file, the cleanup included.
C11_MirrorCompleteness ==
    (pc = "returned" /\ outcome = "ok" /\ NoCopyError)
    => \A d \in Range(changed_dirs) :
          /\ d \in fs[name].tgt.dirs
          /\ \A f \in FilesIn(fs[name].src, d) :
                fs[name].tgt.files[<<d, f>>] = fs[name].src.files[<<d, f>>]

\* C11 witness: a successful call that mirrored three directories over a
\* target holding older versions of their files, and whose cleanup deleted a
\* stale file
C11_Witness ==
    /\ pc = "returned"
    /\ outcome = "ok"
    /\ NoCopyError
    /\ Len(changed_dirs) = 3
    /\ start.tgt.files[<<"a", "f">>] = "v1"
    /\ fs[name].tgt.files[<<"a", "f">>] = "v2"
    /\ fs[name].tgt.files[<<"a", "g">>] = "v2"
    /\ stats.files_deleted > 0

\* C12: a call whose source root does not exist returns (False, last_sync):
\* the timestamp is the one read from the store, nothing was scanned, mirrored,
\* checkpointed or cleaned up, and the configuration's trees are as they were
\* when the call began.
C12_MissingSourceFailsAtOnce ==
    (pc = "returned" /\ ~fs[name].src.exists)
    => /\ success = FALSE
       /\ newest_synced = last_sync
       /\ last_sync = get_last_sync(state, name)
       /\ fs[name] = start
       /\ changed_dirs = <<>>
       /\ i = 0
       /\ mirrored = {}
       /\ checkpoints = <<>>
       /\ cleanup_errors = -1
       /\ (proc = 1 /\ k = 1) => stats = ZeroStats

\* C12 witness: a call with a stored timestamp and a populated target whose
\* source root is missing has returned
C12_Witness ==
    /\ pc = "returned"
    /\ ~fs[name].src.exists
    /\ last_sync > Epoch
    /\ newest_synced = last_sync
    /\ fs[name].tgt = StaleTarget
    /\ k = 2

\* C13: whatever happened to the writes of the state file, every key this
\* process has set reads back, by get_last_sync, as the timestamp of the last
\* set_last_sync call for it.
C13_MemoryKeptOnWriteFailure ==
    /\ \A key \in Keys :
          written[key].set => get_last_sync(state, key) = written[key].t
    /\ (pc = "got" /\ written[name].set) => last_sync = written[name].t

\* C13 witness: get_last_sync returned the timestamp set earlier in the
\* process although the state file does not hold it
C13_Witness ==
    /\ pc = "got"
    /\ written[name].set
    /\ last_sync = written[name].t
    /\ last_sync > Epoch
    /\ disk[name] # state[name]
    /\ \E key \in Keys \ {name} : written[key].set /\ written[key].t # last_sync

\* the step writes to the store while a call is inside its try block
WritesStoreInCall ==
    /\ pc \in {"root", "scan", "mirror", "cleanup"}
    /\ (state' # state \/ disk' # disk \/ written' # written
        \/ checkpoints' # checkpoints)

\* the step is the loop iteration that completes a batch
CompletesBatch ==
    /\ pc = "mirror"
    /\ i' = i + 1
    /\ i' % CheckpointEvery = 0

\* the checkpoint rule shared by both statements of C14: the call writes to
\* the store exactly in the iterations that complete a batch, and what it
\* writes is the newest-synced timestamp of that moment
CheckpointPerBatch ==
    /\ [](Len(checkpoints) = i \div CheckpointEvery)
    /\ [][WritesStoreInCall => CompletesBatch]_vars
    /\ [][CompletesBatch =>
            /\ checkpoints' = Append(checkpoints, newest_synced')
            /\ written'[name] = WrittenAs(newest_synced')
            /\ state'[name] = IsoFormat(newest_synced')]_vars

\* the datetime of the source modification time of the m-th changed directory
ChangedTime(m) == FromTimestamp(fs[name].src.mtime[changed_dirs[m]])

C15_ScanStrictlyNewer ==
    AfterScan
    => /\ Root \notin Range(changed_dirs)
       /\ Len(changed_dirs) = Cardinality(Range(changed_dirs))
       /\ Range(changed_dirs) \subseteq NewerThan(fs[name].src, last_sync)
       /\ Cardinality(NewerThan(fs[name].src, last_sync) \ Range(changed_dirs))
             <= stats.errors
       /\ faults = 0 => Range(changed_dirs) = NewerThan(fs[name].src, last_sync)
       /\ stats.dirs_changed = Len(changed_dirs)
       /\ stats.dirs_scanned = 1 + Cardinality(fs[name].src.dirs)

\* C15 witness: a scan that reported a directory newer than `since`, left out
\* a directory exactly as old as `since`, and left out the root although the
\* root is newer than `since`
C15_Witness ==
    /\ AfterScan
    /\ faults = 0
    /\ last_sync > Epoch
    /\ FromTimestamp(fs[name].src.mtime[Root]) > last_sync
    /\ \E d \in Range(changed_dirs) : FromTimestamp(fs[name].src.mtime[d]) > last_sync
    /\ \E d \in fs[name].src.dirs \ Range(changed_dirs) :
          FromTimestamp(fs[name].src.mtime[d]) = last_sync

\* the scan of the current call found no changed directory and the call has
\* returned without being interrupted
ReturnedAfterEmptyScan ==
    /\ pc = "returned"
    /\ fs[name].src.exists
    /\ stats.dirs_scanned > 0
    /\ changed_dirs = <<>>
    /\ outcome # "interrupted"

\* C16: a call whose scan finds no changed directory still runs the cleanup
\* (which leaves no target-only file or directory unless a deletion failed),
\* writes nothing to the store, and returns (True, last_sync).
C16_EmptyScanStillCleansUp ==
    ReturnedAfterEmptyScan
    => /\ success = TRUE
       /\ outcome = "ok"
       /\ newest_synced = last_sync
       /\ cleanup_errors >= 0
       /\ cleanup_errors = 0
             => /\ TreeFiles(fs[name].tgt) \subseteq TreeFiles(fs[name].src)
                /\ fs[name].tgt.dirs \subseteq fs[name].src.dirs
       /\ checkpoints = <<>>
       /\ ~written[name].set
       /\ state[name] = loaded[name]
       /\ mirrored = {}

\* C16 witness: nothing had changed since the stored timestamp, and the
\* cleanup deleted stale files and directories of the target
C16_Witness ==
    /\ ReturnedAfterEmptyScan
    /\ last_sync > Epoch
    /\ fs[name].src.dirs # {}
    /\ stats.files_deleted > 0
    /\ stats.dirs_deleted > 0
    /\ newest_synced = last_sync

\* the step takes the call out of its try block by an exception
RaisesInCall == outcome = "running" /\ outcome' = "failed"

\* C17: an exception raised in the root sync, the scan or the mirroring loop
\* ends the call as failed: the error counter goes up by one, the call returns
\* False with the newest-synced timestamp as accumulated over the directories
\* processed before, and the cleanup is not run, so nothing the target had when
\* the call began is deleted.
C17_ErrorEndsRunAsFailed ==
    /\ [][RaisesInCall =>
            /\ pc' = "returned"
            /\ success' = FALSE
            /\ stats'.errors = stats.errors + 1
            /\ newest_synced' = newest_synced
            /\ i' = i
            /\ UNCHANGED <<state, disk>>]_vars
    /\ []((pc = "returned" /\ outcome = "failed")
            => /\ success = FALSE
               /\ cleanup_errors = -1
               /\ stats.files_deleted = 0
               /\ stats.dirs_deleted = 0
               /\ TreeDirs(start.tgt) \subseteq TreeDirs(fs[name].tgt)
               /\ TreeFiles(start.tgt) \subseteq TreeFiles(fs[name].tgt)
               /\ newest_synced
                     = SetMax(SourceTimesOf(Processed \ untracked), last_sync))

\* C17 witness: a changed directory could not be listed after another one
\* had been mirrored and had advanced the timestamp; the target still holds
\* the stale entries the cleanup would have deleted
C17_Witness ==
    /\ pc = "returned"
    /\ outcome = "failed"
    /\ i >= 1
    /\ i < Len(changed_dirs)
    /\ newest_synced > last_sync
    /\ stats.errors = 1
    /\ StaleFiles(fs[name]) # {}
    /\ StaleDirs(fs[name]) # {}

\* the step is one iteration of the mirroring loop
LoopIteration == pc = "mirror" /\ i' = i + 1

\* C18: in every iteration of the mirroring loop, either the target directory
\* was created and every regular file of the source directory was attempted
\* (each one copied and counted as synced, or left as it was and counted as an
\* error), or the target directory could not be created, which costs one
\* error and leaves the target as it was; in both cases the loop goes on to
\* the next changed directory, or to the cleanup after the last one.
C18_FailuresStayLocal ==
    [][LoopIteration =>
         LET d == changed_dirs[i']
             F == FilesIn(fs[name].src, d)
             synced == stats'.files_synced - stats.files_synced
             errors == stats'.errors - stats.errors
         IN /\ outcome' = "running"
            /\ pc' = (IF i' = Len(changed_dirs) THEN "cleanup" ELSE "mirror")
            /\ \/ /\ d \in fs'[name].tgt.dirs
                  /\ \E failC \in SUBSET F :
                        /\ errors = Cardinality(failC)
                        /\ synced = Cardinality(F \ failC)
                        /\ \A f \in F \ failC :
                              fs'[name].tgt.files[<<d, f>>] = fs[name].src.files[<<d, f>>]
                        /\ \A f \in failC :
                              fs'[name].tgt.files[<<d, f>>] = fs[name].tgt.files[<<d, f>>]
                              /\ fs'[name].tgt.files[<<d, f>>] # fs[name].src.files[<<d, f>>]
               \/ /\ errors = 1
                  /\ synced = 0
                  /\ d \notin mirrored'
                  /\ fs' = fs]_vars

\* C18 witness: a call that ended successfully although the target directory
\* of one changed directory could not be created, and that mirrored a later
\* directory of the list
C18_Witness ==
    /\ pc = "returned"
    /\ outcome = "ok"
    /\ success = TRUE
    /\ stats.errors = 1
    /\ \E m \in 1..Len(changed_dirs) :
          /\ changed_dirs[m] \notin mirrored
          /\ \E n \in (m + 1)..Len(changed_dirs) : changed_dirs[n] \in mirrored

\* the step is the cleanup of the current call
CleanupStep == pc = "cleanup" /\ outcome' = "ok"

\* the files and directories of the target the step removed
RemovedFiles ==
    {p \in FilePaths : fs[name].tgt.files[p] # Absent
                       /\ fs'[name].tgt.files[p] = Absent}

RemovedDirs == fs[name].tgt.dirs \ fs'[name].tgt.dirs

\* C19: the cleanup removes no file and no directory whose relative path
\* exists in the source; a directory it removes has nothing left inside (its
\* files were deleted, its subdirectories removed before it); every stale
\* entry is dealt with whatever failed before it: a stale file is deleted or
\* counted as an error, and a stale directory is removed, or still has
\* something inside, or is counted as an error.
C19_CleanupGuard ==
    [][CleanupStep =>
         LET left == fs'[name].tgt
             stale == StaleFiles(fs[name])
         IN /\ RemovedFiles \cap TreeFiles(fs[name].src) = {}
            /\ RemovedDirs \cap fs[name].src.dirs = {}
            /\ fs'[name].src = fs[name].src
            /\ \A d \in RemovedDirs :
                  /\ \A f \in FileNames : left.files[<<d, f>>] = Absent
                  /\ ~\E x \in left.dirs : Parent(x) = d
            /\ RemovedFiles \subseteq stale
            /\ stats'.files_deleted - stats.files_deleted = Cardinality(RemovedFiles)
            /\ stats'.dirs_deleted - stats.dirs_deleted = Cardinality(RemovedDirs)
            /\ stats'.errors - stats.errors
                  = Cardinality(stale \ RemovedFiles)
                    + Cardinality({d \in StaleDirs(fs[name]) \ RemovedDirs :
                                      /\ FilesIn(left, d) = {}
                                      /\ ~\E x \in left.dirs : Parent(x) = d})]_vars

\* C19 witness: a file deletion failed inside a stale directory, which was
\* therefore left in place with its parent, while the cleanup went on to
\* delete other stale files and another stale directory
C19_Witness ==
    /\ pc = "returned"
    /\ cleanup_errors = 1
    /\ stats.errors = 1
    /\ {"a", "a/b"} \subseteq StaleDirs(fs[name])
    /\ FilesIn(fs[name].tgt, "a/b") # {}
    /\ FilesIn(fs[name].tgt, "a") = {}
    /\ stats.files_deleted >= 2
    /\ stats.dirs_deleted >= 1

\* C20: a key this process has not written maps, in memory, to the value the
\* state file gave it when the process loaded it; a step changes the entry of
\* the written key only; a write that succeeds puts the whole mapping in the
\* file, so the file agrees with the memory on every key as long as no write
\* failed (a failed write leaves the file as it was or truncated).
C20_OtherKeysUntouched ==
    /\ [](\A key \in Keys : ~written[key].set => state[key] = loaded[key])
    /\ [](faults = 0 => disk = state)
    /\ [][\A key \in Keys :
             state'[key] # state[key]
                => /\ key = name
                   /\ written'[key].set
                   /\ state'[key] = IsoFormat(written'[key].t)]_vars
    /\ [][disk' # disk
             => \/ disk' = state'
                \/ faults' > faults /\ disk' = EmptyState]_vars

\* C20 witness: the first configuration was written by a checkpoint and by
\* the final save, the second one not yet; the second entry and the entry of
\* the unknown key hold, in memory and in the file, the values they were
\* loaded with
C20_Witness ==
    /\ pc = "main"
    /\ k = 2
    /\ prev[configurations[1]].checkpoints # <<>>
    /\ written[configurations[1]].set
    /\ state[configurations[1]] # loaded[configurations[1]]
    /\ ~written[configurations[2]].set
    /\ state[configurations[2]] = BadValue
    /\ state["other"] = BadValue
    /\ disk = state

\* the current call is the one of the second invocation, it follows a call of
\* the first invocation whose returned timestamp the state file held when the
\* second invocation loaded it, and nothing has failed in the current call
AfterPersistedRun ==
    /\ AfterScan
    /\ proc = 2
    /\ prev[name].ran
    /\ prev[name].proc = 1
    /\ loaded[name] = IsoFormat(prev[name].returned)
    /\ stats.errors = 0

\* C21 (as claimed): once the timestamp a run returned is persisted, every
\* regular file directly inside a directory that run's scan reported as changed
\* is present in the target, or the next run over the same source reports the
\* directory as changed again.
C21_NoSilentLoss ==
    AfterPersistedRun
    => \A d \in prev[name].changed :
          \/ d \in Range(changed_dirs)
          \/ /\ d \in fs[name].tgt.dirs
             /\ \A f \in FilesIn(fs[name].src, d) :
                   fs[name].tgt.files[<<d, f>>] # Absent

\* C22: no step changes the source tree of any configuration (its
\* directories, its files and their content, its modification times), so
\* during and after every call, however it ends, the source is as it was when
\* the call began.
C22_SourceUntouched ==
    /\ [][\A n \in Names : fs'[n].src = fs[n].src]_vars
    /\ [](outcome # "none" => fs[name].src = start.src)

\* C22 witness: a call that copied root files, mirrored three directories
\* with a checkpoint on the way, and deleted stale files and directories of
\* the target, has returned with its source as it was
C22_Witness ==
    /\ pc = "returned"
    /\ outcome = "ok"
    /\ Len(changed_dirs) = 3
    /\ mirrored = Range(changed_dirs)
    /\ checkpoints # <<>>
    /\ stats.files_synced >= 4
    /\ stats.files_deleted > 0
    /\ fs[name].tgt # start.tgt
    /\ fs[name].src = start.src
    /\ fs[name].src.exists

====
